---------------------------- MODULE Spec2Model ----------------------------
(***************************************************************************)
(* A model of the api-proxy repository: five deployment variants of one    *)
(* Deno reverse proxy.                                                     *)
(*                                                                         *)
(*   "zlibrary"  src/main.ts 1-328      cookie gate with the fixed token   *)
(*                                      "ok", forwards to z-library.sk     *)
(*   "hashed"    src/main.ts 330-994    cookie gate with SHA-256(password),*)
(*                                      prefix routed, sorted prefixes     *)
(*   "noauth"    src/main.ts 1529-2039  prefix routed, sorted prefixes     *)
(*   "part000"   src/unnamed/part_000   prefix routed, table order, no     *)
(*                                      query string                       *)
(*   "basicauth" src/main.ts 2041-2179  prefix routed, table order, Basic  *)
(*                                      auth on / and /index.html          *)
(*                                                                         *)
(* Strings are sequences of atoms (short strings).  Two strings of the     *)
(* model are equal, or one starts with the other, exactly when their atom  *)
(* sequences are: the literals the code searches for ("=", ";", " ", the   *)
(* cookie names, the prefixes) are atoms of their own and never occur      *)
(* inside another atom, except where an atom sequence spells them out.     *)
(***************************************************************************)
EXTENDS Integers, Sequences, FiniteSets, TLC

VARIABLES
    variant,    \* which of the five programs is deployed
    password,   \* PROXY_PASSWORD, or NoPassword when the variable is unset
    jar,        \* the cookies an honest client has received through the proxy
    honest,     \* the client has so far only sent cookies out of its jar
    everLogin,  \* some earlier login submission carried the configured secret
    page,       \* the login form the client has in front of it
    elapsed,    \* seconds since the last successful login
    req,        \* the request handled last
    resp,       \* the response given to it
    fetched,    \* the upstream calls made for it, in order
    op,         \* pure-function specifications: the function applied last
    input,      \* ... its arguments
    output      \* ... its result

vars == <<variant, password, jar, honest, everLogin, page, elapsed, req, resp,
          fetched, op, input, output>>

\* null and undefined, where a string (an atom sequence) is expected
Null == <<"<null>">>

----------------------------------------------------------------------------
(* Strings as atom sequences: the String methods the code uses.            *)

SP == " "
EQ == "="
SEMI == ";"

\* String.prototype.startsWith
StartsWith(s, p) ==
    /\ Len(p) <= Len(s)
    /\ SubSeq(s, 1, Len(p)) = p

\* String.prototype.endsWith
EndsWith(s, p) ==
    /\ Len(p) <= Len(s)
    /\ SubSeq(s, Len(s) - Len(p) + 1, Len(s)) = p

\* String.prototype.slice(n)
Slice(s, n) == SubSeq(s, n + 1, Len(s))

\* The index of the first occurrence of atom c in s, 0 when there is none.
IndexOf(s, c) ==
    IF \E i \in 1..Len(s) : s[i] = c
    THEN CHOOSE i \in 1..Len(s) : s[i] = c /\ \A j \in 1..(i - 1) : s[j] # c
    ELSE 0

\* String.prototype.split(c): one piece more than there are separators.
RECURSIVE Split(_, _)
Split(s, c) ==
    LET i == IndexOf(s, c)
    IN  IF i = 0 THEN <<s>>
        ELSE <<SubSeq(s, 1, i - 1)>> \o Split(SubSeq(s, i + 1, Len(s)), c)

\* String.prototype.trim
RECURSIVE Trim(_)
Trim(s) ==
    IF s = <<>> THEN s
    ELSE IF Head(s) = SP THEN Trim(Tail(s))
    ELSE IF s[Len(s)] = SP THEN Trim(SubSeq(s, 1, Len(s) - 1))
    ELSE s

\* Array.prototype.join(sep)
RECURSIVE Join(_, _)
Join(parts, sep) ==
    IF parts = <<>> THEN <<>>
    ELSE IF Len(parts) = 1 THEN parts[1]
    ELSE parts[1] \o sep \o Join(Tail(parts), sep)

\* String.prototype.toLowerCase, atom by atom.
LowerAtom(a) ==
    CASE a \in {"Domain", "DOMAIN"} -> "domain"
      [] a \in {"Secure", "SECURE"} -> "secure"
      [] a \in {"SameSite", "SAMESITE"} -> "samesite"
      [] a \in {"Path", "PATH"} -> "path"
      [] a \in {"Expires"} -> "expires"
      [] a \in {"Max-Age"} -> "max-age"
      [] a \in {"HttpOnly"} -> "httponly"
      [] a \in {"Cookie", "COOKIE"} -> "cookie"
      [] a \in {"Accept-Encoding"} -> "accept-encoding"
      [] a \in {"Z-Library.SK"} -> "z-library.sk"
      [] a \in {"Via", "VIA"} -> "via"
      [] a \in {"X-Forwarded-", "X-FORWARDED-"} -> "x-forwarded-"
      [] a \in {"For"} -> "for"
      [] a \in {"Port"} -> "port"
      [] a \in {"PROTO"} -> "proto"
      [] a \in {"X-Real-IP"} -> "x-real-ip"
      [] a \in {"Forwarded"} -> "forwarded"
      [] a \in {"Accept"} -> "accept"
      [] a \in {"Accept-Language"} -> "accept-language"
      [] a \in {"Authorization"} -> "authorization"
      [] a \in {"Host"} -> "host"
      [] a \in {"Referer"} -> "referer"
      [] a \in {"Origin"} -> "origin"
      [] a \in {"EN"} -> "en"
      [] OTHER -> a

ToLowerCase(s) == [i \in 1..Len(s) |-> LowerAtom(s[i])]

\* [...new Set(xs)]: the first occurrence of each element, in order.
RECURSIVE Dedupe(_)
Dedupe(xs) ==
    IF xs = <<>> THEN <<>>
    ELSE LET init == Dedupe(SubSeq(xs, 1, Len(xs) - 1))
             last == xs[Len(xs)]
         IN  IF \E i \in 1..Len(init) : init[i] = last
             THEN init ELSE Append(init, last)

\* All sequences over S of length at most n.
SeqUpTo(S, n) == UNION {[1..k -> S] : k \in 0..n}

----------------------------------------------------------------------------
(* Prefix resolution.                                                      *)

\* prefixes.sort((a, b) => b.length - a.length): a stable sort, longest first
RECURSIVE SortByLengthDesc(_)
SortByLengthDesc(prefixes) ==
    IF prefixes = <<>> THEN <<>>
    ELSE LET m == CHOOSE i \in 1..Len(prefixes) :
                    /\ \A j \in 1..Len(prefixes) :
                          Len(prefixes[j]) <= Len(prefixes[i])
                    /\ \A j \in 1..(i - 1) :
                          Len(prefixes[j]) < Len(prefixes[i])
             rest == [k \in 1..(Len(prefixes) - 1) |->
                        IF k < m THEN prefixes[k] ELSE prefixes[k + 1]]
         IN  <<prefixes[m]>> \o SortByLengthDesc(rest)

\* The loop both versions share: the first prefix of the list the path
\* starts with, and the path after it; [null, null] when there is none.
RECURSIVE FirstMatch(_, _)
FirstMatch(pathname, prefixes) ==
    IF prefixes = <<>> THEN <<Null, Null>>
    ELSE IF StartsWith(pathname, Head(prefixes))
         THEN <<Head(prefixes), Slice(pathname, Len(Head(prefixes)))>>
         ELSE FirstMatch(pathname, Tail(prefixes))

\* extractPrefixAndRest of part_000 and of the basic-auth variant: table order
extractPrefixAndRest(pathname, prefixes) ==
    FirstMatch(pathname, prefixes)

\* extractPrefixAndRest of the hashed-token and no-auth variants: sorted first
extractPrefixAndRestSorted(pathname, prefixes) ==
    FirstMatch(pathname, SortByLengthDesc(prefixes))

----------------------------------------------------------------------------
(* Configuration.                                                          *)

Variants == {"zlibrary", "hashed", "noauth", "part000", "basicauth"}
CookieVariants == {"zlibrary", "hashed"}
PrefixVariants == {"hashed", "noauth", "part000", "basicauth"}

NoPassword == "<unset>"
NoField == "<missing>"
Secret == "secret123"
WrongPassword == "hunter2"

ZLIB_BASE_URL == "z-library.sk"
PROXY_DOMAIN == "proxy.example"
AUTH_COOKIE_NAME == "proxy_auth_session"
AUTH_COOKIE_NAME_hashed == "api_proxy_auth_token"

\* The session-cookie name of the deployed variant.
AuthCookieName(v) ==
    IF v = "zlibrary" THEN AUTH_COOKIE_NAME ELSE AUTH_COOKIE_NAME_hashed

\* crypto.subtle.digest("SHA-256", ...) as lower-case hex, for the passwords
\* of the model (the digests are the real ones).
generateAuthToken(pw) ==
    CASE pw = "secret123" ->
           "fcf730b6d95236ecd3c9fc2d92d7b6b2bb061514961aec041d6c7a7192f592e4"
      [] pw = "hunter2" ->
           "f52fbd32b2b3b86ff88ef6c490628285f482af15ddcb29541f94bcf526a3f6c7"

\* A representative part of apiMapping, in the order of the source; the
\* origins are strings (atom sequences: scheme, host, base path).
apiMapping ==
    << [prefix |-> <<"/discord">>, origin |-> <<"https://", "discord.com", "/api">>],
       [prefix |-> <<"/openai">>, origin |-> <<"https://", "api.openai.com">>],
       [prefix |-> <<"/groq">>, origin |-> <<"https://", "api.groq.com", "/openai">>],
       [prefix |-> <<"/openrouter">>, origin |-> <<"https://", "openrouter.ai", "/api">>] >>

\* Object.keys(apiMapping)
Keys(mapping) == [i \in 1..Len(mapping) |-> mapping[i].prefix]

\* apiMapping[prefix]
Origin(mapping, prefix) ==
    mapping[CHOOSE i \in 1..Len(mapping) : mapping[i].prefix = prefix].origin

----------------------------------------------------------------------------
(* Cookies of the request.                                                 *)

\* getCookies of std/http/cookie.ts on the Cookie header (Null: no header):
\* split at ";", each piece at its first "=", the key trimmed, the value not.
\* The result lists the pairs in header order; a later pair overwrites an
\* earlier one of the same key.
getCookies(cookie) ==
    IF cookie = Null THEN <<>>
    ELSE LET c == Split(cookie, SEMI)
         IN  [i \in 1..Len(c) |->
                LET kv == Split(c[i], EQ)
                IN  [key |-> Trim(kv[1]),
                     value |-> Join(Tail(kv), <<EQ>>)]]

\* cookies[name]: the value the last pair of that key holds, Null (undefined)
\* when there is no such pair.
CookieValue(cookies, name) ==
    IF \E i \in 1..Len(cookies) : cookies[i].key = <<name>>
    THEN cookies[CHOOSE i \in 1..Len(cookies) :
                    /\ cookies[i].key = <<name>>
                    /\ \A j \in (i + 1)..Len(cookies) : cookies[j].key # <<name>>].value
    ELSE Null

\* isValidAuthCookie of the Z-Library variant
isValidAuthCookie(cookies) ==
    CookieValue(cookies, AUTH_COOKIE_NAME) = <<"ok">>

\* cookies.match(new RegExp(`${AUTH_COOKIE_NAME}=([^;]+)`)): the leftmost place
\* where the name, "=" and at least one character other than ";" follow one
\* another; the group is the longest run without ";".  Null when no match.
TokenMatch(cookies) ==
    LET ok(i) == /\ cookies[i] = AUTH_COOKIE_NAME_hashed
                 /\ i + 2 <= Len(cookies)
                 /\ cookies[i + 1] = EQ
                 /\ cookies[i + 2] # SEMI
    IN  IF \E i \in 1..Len(cookies) : ok(i)
        THEN LET i == CHOOSE k \in 1..Len(cookies) :
                        ok(k) /\ \A j \in 1..(k - 1) : ~ok(j)
                 run == Slice(cookies, i + 1)
                 stop == IndexOf(run, SEMI)
             IN  IF stop = 0 THEN run ELSE SubSeq(run, 1, stop - 1)
        ELSE Null

\* isAuthenticated of the hashed-token variant
isAuthenticated(cookie, pw) ==
    IF pw = NoPassword THEN TRUE
    ELSE LET cookies == IF cookie = Null THEN <<>> ELSE cookie
             receivedToken == TokenMatch(cookies)
         IN  IF receivedToken = Null THEN FALSE
             ELSE receivedToken = <<generateAuthToken(pw)>>

----------------------------------------------------------------------------
(* URI component coding, for the atoms a request target is made of.        *)

\* plain atom, the atom percent-encoded
UriTable ==
    << <<"/", "%2F">>, <<"/book", "%2Fbook">>,
       <<"/auth-login", "%2Fauth-login">>, <<"?x=1", "%3Fx%3D1">>,
       <<"%2F", "%252F">>, <<"%2Fbook", "%252Fbook">>,
       <<"%2Fauth-login", "%252Fauth-login">>, <<"%3Fx%3D1", "%253Fx%253D1">> >>

\* an escape that decodeURIComponent rejects with a URIError
MalformedEscape == "%zz"

EncodeAtom(a) ==
    IF \E i \in 1..Len(UriTable) : UriTable[i][1] = a
    THEN UriTable[CHOOSE i \in 1..Len(UriTable) : UriTable[i][1] = a][2]
    ELSE a

DecodeAtom(a) ==
    IF \E i \in 1..Len(UriTable) : UriTable[i][2] = a
    THEN UriTable[CHOOSE i \in 1..Len(UriTable) : UriTable[i][2] = a][1]
    ELSE a

encodeURIComponent(s) == [i \in 1..Len(s) |-> EncodeAtom(s[i])]

DecodeThrows(s) == \E i \in 1..Len(s) : s[i] = MalformedEscape

decodeURIComponent(s) == [i \in 1..Len(s) |-> DecodeAtom(s[i])]

----------------------------------------------------------------------------
(* Responses, and the login pages and submissions of the two gates.        *)

\* new Response(...): the status, what the body is, and the headers the
\* claims are about.  form: the login form's hidden redirect_to field.
Response(status, kind) ==
    [status |-> status, kind |-> kind, setCookie |-> <<>>, location |-> Null,
     vary |-> Null, framing |-> FALSE, form |-> Null, showError |-> FALSE]

NoFetch == <<>>

Reply(r) == [resp |-> r, fetched |-> NoFetch]

\* handleLoginPage of the Z-Library variant
handleLoginPage(showError, attemptedUrl) ==
    [Response(401, "login-form") EXCEPT
        !.showError = showError,
        !.form = encodeURIComponent(attemptedUrl)]

\* toString of std/http/cookie.ts for the session cookie of the Z-Library
\* variant: name=value; Secure; HttpOnly; Max-Age; Domain; SameSite; Path
SessionCookie ==
    <<AUTH_COOKIE_NAME, EQ, "ok", SEMI, SP, "Secure", SEMI, SP, "HttpOnly",
      SEMI, SP, "Max-Age", EQ, "2592000", SEMI, SP, "Domain", EQ, PROXY_DOMAIN,
      SEMI, SP, "SameSite", EQ, "Lax", SEMI, SP, "Path", EQ, "/">>

\* handleLoginSubmission of the Z-Library variant.  form.parsed is FALSE when
\* req.formData() rejects; a field that is missing is NoField resp. Null.
handleLoginSubmission(form, pw) ==
    IF pw = NoPassword THEN Response(500, "auth-not-configured")
    ELSE IF ~form.parsed THEN Response(500, "login-error")
    ELSE LET submittedPassword == form.password
             redirectTo == IF form.redirect_to \in {Null, <<>>}
                           THEN <<"/">> ELSE form.redirect_to
         IN  IF submittedPassword = pw
             THEN [Response(302, "login-redirect") EXCEPT
                     !.setCookie = <<SessionCookie>>,
                     !.location = redirectTo]
             ELSE IF DecodeThrows(redirectTo)
                  THEN Response(500, "login-error")
                  ELSE handleLoginPage(TRUE, decodeURIComponent(redirectTo))

\* generateLoginPage of the hashed-token variant: no redirect_to field
generateLoginPage(errorMessage) ==
    [Response(401, "login-form") EXCEPT !.showError = (errorMessage # "")]

\* the cookie handleLogin writes
SessionCookie_hashed(pw) ==
    <<AUTH_COOKIE_NAME_hashed, EQ, generateAuthToken(pw), SEMI, SP, "Path", EQ,
      "/", SEMI, SP, "HttpOnly", SEMI, SP, "Secure", SEMI, SP, "SameSite", EQ,
      "Lax", SEMI, SP, "Max-Age", EQ, "86400">>

\* handleLogin of the hashed-token variant
handleLogin(form, pw) ==
    IF pw = NoPassword THEN Response(500, "auth-not-configured")
    ELSE IF ~form.parsed THEN generateLoginPage("login failed with an error")
    ELSE IF form.password = pw
         THEN [Response(302, "login-redirect") EXCEPT
                 !.setCookie = <<SessionCookie_hashed(pw)>>,
                 !.location = <<"/">>]
         ELSE generateLoginPage("invalid password")

----------------------------------------------------------------------------
(* Set-Cookie lines of the upstream response (Z-Library variant).          *)

\* parts[0].match(/^([^=]+)=(.*)$/): a non-empty name before the first "="
NameValueMatch(part) == IndexOf(part, EQ) >= 2

\* The loop over parts[1..]: what each attribute adds to modifiedAttributes.
RECURSIVE KeptAttributes(_, _)
KeptAttributes(attributes, proxyDomain) ==
    IF attributes = <<>> THEN <<>>
    ELSE LET attribute == Head(attributes)
             lowerAttr == ToLowerCase(attribute)
             rest == KeptAttributes(Tail(attributes), proxyDomain)
         IN  IF StartsWith(lowerAttr, <<"domain", EQ>>)
             THEN <<<<"Domain", EQ, proxyDomain>>>> \o rest
             ELSE IF \/ StartsWith(lowerAttr, <<"secure">>)
                     \/ StartsWith(lowerAttr, <<"samesite", EQ>>)
             THEN rest
             ELSE IF \/ StartsWith(lowerAttr, <<"path", EQ>>)
                     \/ StartsWith(lowerAttr, <<"expires", EQ>>)
                     \/ StartsWith(lowerAttr, <<"max-age", EQ>>)
                     \/ StartsWith(lowerAttr, <<"httponly">>)
             THEN <<attribute>> \o rest
             ELSE IF attribute # <<>>
             THEN <<attribute>> \o rest
             ELSE rest

\* modifyCookieString without the trim() of the parts
modifyCookieString_untrimmed(cookieString, proxyDomain) ==
    IF cookieString = <<>> THEN Null
    ELSE LET parts == Split(cookieString, SEMI)
         IN  IF ~NameValueMatch(parts[1]) THEN Null
             ELSE LET i == IndexOf(parts[1], EQ)
                      name == SubSeq(parts[1], 1, i - 1)
                      value == Slice(parts[1], i)
                      attributes == Tail(parts)
                      domainSet == \E k \in 1..Len(attributes) :
                          StartsWith(ToLowerCase(attributes[k]), <<"domain", EQ>>)
                      modifiedAttributes ==
                          <<name \o <<EQ>> \o value>>
                          \o KeptAttributes(attributes, proxyDomain)
                          \o (IF domainSet THEN <<>>
                              ELSE <<<<"Domain", EQ, proxyDomain>>>>)
                          \o <<<<"Secure">>, <<"SameSite", EQ, "None">>>>
                  IN  IF name = <<AUTH_COOKIE_NAME>> THEN Null
                      ELSE Join(Dedupe(modifiedAttributes), <<SEMI, SP>>)

\* modifyCookieString; Null for null
modifyCookieString(cookieString, proxyDomain) ==
    IF cookieString = <<>> THEN Null
    ELSE LET split == Split(cookieString, SEMI)
             parts == [i \in 1..Len(split) |-> Trim(split[i])]
         IN  IF ~NameValueMatch(parts[1]) THEN Null
             ELSE LET i == IndexOf(parts[1], EQ)
                      name == SubSeq(parts[1], 1, i - 1)
                      value == Slice(parts[1], i)
                      attributes == Tail(parts)
                      domainSet == \E k \in 1..Len(attributes) :
                          StartsWith(ToLowerCase(attributes[k]), <<"domain", EQ>>)
                      modifiedAttributes ==
                          <<name \o <<EQ>> \o value>>
                          \o KeptAttributes(attributes, proxyDomain)
                          \o (IF domainSet THEN <<>>
                              ELSE <<<<"Domain", EQ, proxyDomain>>>>)
                          \o <<<<"Secure">>, <<"SameSite", EQ, "None">>>>
                  IN  IF name = <<AUTH_COOKIE_NAME>> THEN Null
                      ELSE Join(Dedupe(modifiedAttributes), <<SEMI, SP>>)

\* getCookieString for the siteLanguage cookie modifyResponseHeaders appends
siteLanguageCookieString(lang) ==
    <<"siteLanguage", EQ, IF lang = <<"zh">> THEN "zh" ELSE "en", SEMI, SP,
      "Max-Age", EQ, "31536000", SEMI, SP, "Domain", EQ, PROXY_DOMAIN, SEMI, SP,
      "Path", EQ, "/", SEMI, SP, "Secure", SEMI, SP, "SameSite", EQ, "None">>

\* The lines modifyResponseHeaders appends for the upstream's lines.
RECURSIVE ModifiedCookies(_)
ModifiedCookies(originalSetCookieHeaders) ==
    IF originalSetCookieHeaders = <<>> THEN <<>>
    ELSE LET modifiedCookieString ==
                 modifyCookieString(Head(originalSetCookieHeaders), PROXY_DOMAIN)
             rest == ModifiedCookies(Tail(originalSetCookieHeaders))
         IN  IF modifiedCookieString = Null THEN rest
             ELSE <<modifiedCookieString>> \o rest

----------------------------------------------------------------------------
(* URLs: new URL(location, base) for the Location values of the model.     *)

SchemeAtoms == {"https://", "http://"}
PathAtoms == {"/", "/foo", "/bar", "/book", "/book/", "/auth-login", "/status"}
QueryAtoms == {"?x=1"}
HashAtoms == {"#top"}
\* a host the URL parser rejects
InvalidHostAtom == "["

IsAfterHost(a) == a \in PathAtoms \cup QueryAtoms \cup HashAtoms

\* the longest run of atoms at the front of s that satisfy no IsAfterHost
HostEnd(s) ==
    IF \E i \in 1..Len(s) : IsAfterHost(s[i])
    THEN (CHOOSE i \in 1..Len(s) :
             IsAfterHost(s[i]) /\ \A j \in 1..(i - 1) : ~IsAfterHost(s[j])) - 1
    ELSE Len(s)

\* path, query and fragment of what follows the host (or of a relative
\* reference): the path atoms, then at most one query, at most one fragment
PathOf(s) == SelectSeq(s, LAMBDA a : a \in PathAtoms)
SearchOf(s) == SelectSeq(s, LAMBDA a : a \in QueryAtoms)
HashOf(s) == SelectSeq(s, LAMBDA a : a \in HashAtoms)

\* the directory of a base path: up to and including its last "/"
Dir(pathname) ==
    IF pathname[Len(pathname)] \in {"/", "/book/"} THEN pathname
    ELSE IF Len(pathname) = 1 THEN <<"/">>
    ELSE SubSeq(pathname, 1, Len(pathname) - 1)

\* new URL(location, base); ok is FALSE where the constructor throws.
\* The parser lower-cases the host and gives an empty path as "/".
ParseURL(location, base) ==
    LET absolute == location # <<>> /\ location[1] \in SchemeAtoms \cup {"//"}
        after == IF absolute THEN Tail(location) ELSE location
        n == IF absolute THEN HostEnd(after) ELSE 0
        host == SubSeq(after, 1, n)
        tail == Slice(after, n)
        relative == SelectSeq(tail, LAMBDA a : ~IsAfterHost(a))
    IN  IF absolute /\ (host = <<>> \/ \E i \in 1..n : host[i] = InvalidHostAtom)
        THEN [ok |-> FALSE, hostname |-> <<>>, pathname |-> <<>>,
              search |-> <<>>, hash |-> <<>>]
        ELSE [ok |-> TRUE,
              hostname |-> IF absolute THEN ToLowerCase(host) ELSE base.hostname,
              pathname |->
                  IF absolute
                  THEN (IF PathOf(tail) = <<>> THEN <<"/">> ELSE PathOf(tail))
                  ELSE IF PathOf(tail) # <<>> THEN PathOf(tail)
                  ELSE IF relative # <<>> THEN Dir(base.pathname) \o relative
                  ELSE base.pathname,
              search |->
                  IF absolute \/ PathOf(tail) # <<>> \/ relative # <<>>
                     \/ SearchOf(tail) # <<>>
                  THEN SearchOf(tail) ELSE base.search,
              hash |-> HashOf(tail)]

----------------------------------------------------------------------------
(* modifyResponseHeaders of the Z-Library variant.                         *)

\* step 1: the Location header (Null: the response has none)
RewriteLocation(originalLocation, targetUrl) ==
    IF originalLocation = Null THEN Null
    ELSE LET targetLocation == ParseURL(originalLocation, targetUrl)
         IN  IF ~targetLocation.ok THEN originalLocation
             ELSE IF EndsWith(targetLocation.hostname, <<ZLIB_BASE_URL>>)
             THEN targetLocation.pathname \o targetLocation.search
                  \o targetLocation.hash
             ELSE originalLocation

\* step 5 comparing the tokens as they are written, without toLowerCase
RewriteVary_caseSensitive(vary) ==
    IF vary = Null THEN <<"Cookie">>
    ELSE LET tokens == Split(vary, ",")
         IN  IF \E i \in 1..Len(tokens) : Trim(tokens[i]) = <<"Cookie">>
             THEN vary
             ELSE vary \o <<",", SP, "Cookie">>

\* step 5: the Vary header (Null: the response has none)
RewriteVary(vary) ==
    IF vary = Null THEN <<"Cookie">>
    ELSE LET tokens == Split(vary, ",")
         IN  IF \E i \in 1..Len(tokens) :
                    ToLowerCase(Trim(tokens[i])) = <<"cookie">>
             THEN vary
             ELSE vary \o <<",", SP, "Cookie">>

\* The headers of the relayed response: steps 1 to 5 on a copy of the
\* upstream's headers.  framing: X-Frame-Options, Content-Security-Policy
\* or Strict-Transport-Security is present.
modifyResponseHeaders(targetResponse, targetUrl, lang) ==
    [location |-> RewriteLocation(targetResponse.location, targetUrl),
     framing |-> FALSE,
     setCookie |-> ModifiedCookies(targetResponse.setCookie)
                   \o <<siteLanguageCookieString(lang)>>,
     vary |-> RewriteVary(targetResponse.vary)]

----------------------------------------------------------------------------
(* The request handlers.  A handler takes the request, the configured      *)
(* password and what the environment answers (the upstream's response or   *)
(* failure, the outcome of a file read) and gives the response and the     *)
(* upstream calls it made.                                                 *)

\* fetch(url, {method, headers, body}) as the upstream sees it, and what
\* the upstream answered
Fetch(method, url, cookie, answer) ==
    [method |-> method, url |-> url, cookie |-> cookie, answer |-> answer]

\* The catch blocks around fetch: a TypeError "fetch failed", or anything else.
\* badGateway: the handler tells the two apart (Z-Library variant only).
ProxyError(up, badGateway) ==
    IF up.kind = "fetch failed" /\ badGateway
    THEN Response(502, "bad-gateway")
    ELSE Response(500, "proxy-error")

\* handler of the Z-Library variant
handler(r, pw, up) ==
    IF r.path = <<"/status">> THEN Reply(Response(200, "status"))
    ELSE LET incomingCookies == getCookies(r.cookie)
             authenticated == isValidAuthCookie(incomingCookies)
             langCookie == CookieValue(incomingCookies, "lang")
             lang == IF langCookie = <<>> THEN Null ELSE langCookie
             targetHost == IF lang = <<"zh">> THEN <<"zh", ".", ZLIB_BASE_URL>>
                           ELSE <<ZLIB_BASE_URL>>
             targetUrl == [hostname |-> targetHost, pathname |-> r.path,
                           search |-> r.search]
             call == Fetch(r.method,
                           <<"https://">> \o targetHost \o r.path \o r.search,
                           r.cookie, up)
         IN  IF pw # NoPassword /\ ~authenticated
             THEN IF r.method = "POST" /\ r.path = <<"/auth-login">>
                  THEN Reply(handleLoginSubmission(r.form, pw))
                  ELSE Reply(handleLoginPage(FALSE, r.path \o r.search))
             ELSE IF up.kind = "response"
             THEN LET h == modifyResponseHeaders(up, targetUrl, lang)
                  IN  [resp |-> [Response(up.status, "relayed") EXCEPT
                                    !.location = h.location,
                                    !.setCookie = h.setCookie,
                                    !.vary = h.vary,
                                    !.framing = h.framing],
                       fetched |-> <<call>>]
             ELSE [resp |-> ProxyError(up, TRUE), fetched |-> <<call>>]

\* fetch in its default redirect mode "follow": a 3xx answer with a Location
\* is followed by a second call, for 301 to 303 after a POST with GET
IsRedirect(up) == up.status \in 300..399 /\ up.location # Null

FollowMethod(method, up) ==
    IF up.status \in 301..303 /\ method = "POST" THEN "GET" ELSE method

\* what the redirect target answers
Landing ==
    [kind |-> "response", status |-> 200, location |-> Null, setCookie |-> <<>>,
     vary |-> Null, framing |-> FALSE]

\* The routing and forwarding the four prefix-routed programs share, after
\* their gates.  sorted: extractPrefixAndRest sorts the prefixes; query: the
\* target URL carries url.search; publicDir: /public/ is served from disk;
\* cookie: the Cookie header is on the allow-list; manual: fetch is called
\* with redirect: "manual".
Route(r, up, file, sorted, query, publicDir, cookie, manual) ==
    IF r.path = <<"/robots.txt">> THEN Reply(Response(200, "robots"))
    ELSE IF publicDir /\ StartsWith(r.path, <<"/public/">>)
    THEN Reply(Response(IF file = "found" THEN 200 ELSE 404, "static"))
    ELSE LET match == IF sorted
                      THEN extractPrefixAndRestSorted(r.path, Keys(apiMapping))
                      ELSE extractPrefixAndRest(r.path, Keys(apiMapping))
             prefix == match[1]
             rest == match[2]
         IN  IF prefix \in {Null, <<>>} THEN Reply(Response(404, "not-found"))
             ELSE LET targetUrl == Origin(apiMapping, prefix) \o rest
                                   \o (IF query THEN r.search ELSE <<>>)
                      call == Fetch(r.method, targetUrl,
                                    IF cookie THEN r.cookie ELSE Null, up)
                  IN  IF up.kind = "response" /\ ~manual /\ IsRedirect(up)
                      THEN [resp |-> [Response(Landing.status, "relayed")
                                        EXCEPT !.framing = TRUE],
                            fetched |-> <<call, Fetch(FollowMethod(r.method, up),
                                                      up.location, Null, Landing)>>]
                      ELSE IF up.kind = "response"
                      THEN [resp |-> [Response(up.status, "relayed") EXCEPT
                                        !.location = up.location,
                                        !.setCookie = up.setCookie,
                                        !.vary = up.vary,
                                        !.framing = TRUE],
                            fetched |-> <<call>>]
                      ELSE [resp |-> ProxyError(up, FALSE), fetched |-> <<call>>]

\* handleDashboardPage: the page, or 500 when part_000 cannot read its file
Dashboard(file) ==
    Reply(Response(IF file = "found" THEN 200 ELSE 500, "dashboard"))

\* main with the login path and the gate active whether or not a password
\* is configured
main_gateWithoutPassword(r, pw, up, file) ==
    IF r.path = <<"/login">> /\ r.method = "POST"
    THEN Reply(handleLogin(r.form, pw))
    ELSE IF ~isAuthenticated(r.cookie, pw)
    THEN Reply(generateLoginPage(""))
    ELSE IF r.path \in {<<"/">>, <<"/index.html">>} THEN Dashboard("found")
    ELSE Route(r, up, file, TRUE, TRUE, TRUE, FALSE, FALSE)

\* main of the hashed-token variant
main(r, pw, up, file) ==
    IF pw # NoPassword /\ r.path = <<"/login">> /\ r.method = "POST"
    THEN Reply(handleLogin(r.form, pw))
    ELSE IF pw # NoPassword /\ ~isAuthenticated(r.cookie, pw)
    THEN Reply(generateLoginPage(""))
    ELSE IF r.path \in {<<"/">>, <<"/index.html">>} THEN Dashboard("found")
    ELSE Route(r, up, file, TRUE, TRUE, TRUE, FALSE, FALSE)

\* main of the variant without authentication (src/main.ts 1569-1651)
main_noauth(r, up, file) ==
    IF r.path \in {<<"/">>, <<"/index.html">>} THEN Dashboard("found")
    ELSE Route(r, up, file, TRUE, TRUE, TRUE, FALSE, FALSE)

\* main of part_000
main_part000(r, up, file) ==
    IF r.path \in {<<"/">>, <<"/index.html">>} THEN Dashboard(file)
    ELSE Route(r, up, file, FALSE, FALSE, TRUE, FALSE, FALSE)

\* a string that is no base64: decodeBase64 throws on it
InvalidBase64 == "!!!"

\* an exception leaves the handler: there is no response yet
Thrown == Response(0, "thrown")

\* decodeBase64 and TextDecoder, for the credentials of the model
DecodeBase64(a) ==
    CASE a = "YWRtaW46cGFzc3dvcmQ=" -> <<"admin", ":", "password">>
      [] a = "YWRtaW46d3Jvbmc=" -> <<"admin", ":", "wrong">>
      [] OTHER -> <<a>>

\* handleRequest of the basic-auth variant; r.authorization is the
\* Authorization header (Null: none)
handleRequest(r, up) ==
    IF r.path \in {<<"/">>, <<"/index.html">>}
    THEN IF r.authorization = Null THEN Reply(Response(401, "basic-challenge"))
         ELSE LET fields == Split(r.authorization, SP)
                  authType == fields[1]
                  authString == IF Len(fields) >= 2 THEN fields[2] ELSE <<>>
              IN  IF authType # <<"Basic">> \/ authString = <<>>
                  THEN Reply(Response(400, "basic-format"))
                  ELSE IF authString[1] = InvalidBase64 THEN Reply(Thrown)
                  ELSE LET decodedAuth == Split(DecodeBase64(authString[1]), ":")
                           providedUsername == decodedAuth[1]
                           providedPassword ==
                               IF Len(decodedAuth) >= 2 THEN decodedAuth[2]
                               ELSE Null
                       IN  IF \/ providedUsername # <<"admin">>
                              \/ providedPassword # <<"password">>
                           THEN Reply(Response(401, "basic-invalid"))
                           ELSE Reply(Response(200, "running"))
    ELSE Route(r, up, "found", FALSE, TRUE, FALSE, TRUE, TRUE)

----------------------------------------------------------------------------
(* The server and one client: the inputs of the model.                     *)

\* the most cookies a Cookie header of the model carries
MaxCookies == 2

Methods == {"GET", "POST"}
Searches == {<<>>, <<"?x=1">>}

Paths(v) ==
    IF v = "zlibrary"
    THEN {<<"/">>, <<"/status">>, <<"/auth-login">>, <<"/book">>}
    ELSE {<<"/">>, <<"/robots.txt">>, <<"/public/", "app.css">>, <<"/login">>,
          <<"/openai", "/v1/models">>, <<"/openai", ".evil.example", "/x">>,
          <<"/groq">>, <<"/unknown">>}

Pair(name, value) == [name |-> name, value |-> value]

\* The cookies a client of the model may send.  The name "x" followed by the
\* session-cookie name is another cookie, whose name ends in that name.
CookiePairs(v) ==
    CASE v = "zlibrary" ->
           {Pair(<<AUTH_COOKIE_NAME>>, <<"ok">>),
            Pair(<<AUTH_COOKIE_NAME>>, <<"tampered">>),
            Pair(<<"lang">>, <<"zh">>)}
      [] v = "hashed" ->
           {Pair(<<AUTH_COOKIE_NAME_hashed>>, <<generateAuthToken(Secret)>>),
            Pair(<<AUTH_COOKIE_NAME_hashed>>, <<generateAuthToken(WrongPassword)>>),
            Pair(<<"x", AUTH_COOKIE_NAME_hashed>>, <<generateAuthToken(Secret)>>),
            Pair(<<"x", AUTH_COOKIE_NAME_hashed>>, <<"junk">>)}
      [] v = "basicauth" -> {Pair(<<"sid">>, <<"1">>)}
      [] OTHER -> {}

\* The Cookie header a client writes for a list of cookies; Null for none.
CookieHeader(pairs) ==
    IF pairs = <<>> THEN Null
    ELSE Join([i \in 1..Len(pairs) |-> pairs[i].name \o <<EQ>> \o pairs[i].value],
              <<SEMI, SP>>)

\* the lists of cookies a Cookie header carries: no cookie twice
CookieLists(v) ==
    {l \in SeqUpTo(CookiePairs(v), MaxCookies) :
        \A i, j \in 1..Len(l) : i # j => l[i] # l[j]}

\* The body of a login submission: the form fields, or a body formData()
\* rejects.  Other requests carry no form.
NoForm == [parsed |-> FALSE, password |-> NoField, redirect_to |-> Null]

Forms ==
    {NoForm} \cup
    [parsed : {TRUE}, password : {Secret, WrongPassword, NoField},
     redirect_to : {Null, <<"/book", "?x=1">>, <<"%2Fbook", "%3Fx%3D1">>,
                    <<MalformedEscape>>}]

IsLoginSubmission(v, method, path) ==
    /\ method = "POST"
    /\ \/ v = "zlibrary" /\ path = <<"/auth-login">>
       \/ v = "hashed" /\ path = <<"/login">>

Authorizations ==
    {Null, <<"Basic", SP, "YWRtaW46cGFzc3dvcmQ=">>,
     <<"Basic", SP, "YWRtaW46d3Jvbmc=">>, <<"Bearer", SP, "token">>, <<"Basic">>,
     <<"Basic", SP, InvalidBase64>>}

\* Set-Cookie lines an upstream of the model sends
UpstreamCookies(v) ==
    CASE v = "zlibrary" ->
           {<<"lang", EQ, "zh", SEMI, SP, "Domain", EQ, ZLIB_BASE_URL>>,
            <<AUTH_COOKIE_NAME, EQ, "ok", SEMI, SP, "Path", EQ, "/">>,
            <<AUTH_COOKIE_NAME, SP, EQ, "ok">>}
      [] v = "hashed" ->
           {<<"x", AUTH_COOKIE_NAME_hashed, EQ, "junk">>,
            <<AUTH_COOKIE_NAME_hashed, EQ, generateAuthToken(Secret),
              SEMI, SP, "Path", EQ, "/">>}
      [] OTHER -> {<<"sid", EQ, "1">>}

UpstreamFailures ==
    {[kind |-> k, status |-> 0, location |-> Null, setCookie |-> <<>>,
      vary |-> Null, framing |-> FALSE] : k \in {"fetch failed", "other error"}}

\* a redirect an upstream of the model answers with
UpstreamRedirect(v) ==
    [kind |-> "response", status |-> 302,
     location |-> IF v = "zlibrary" THEN <<"https://", ZLIB_BASE_URL, "/foo">>
                  ELSE <<"https://", "unrelated.example", "/bar">>,
     setCookie |-> <<>>, vary |-> Null, framing |-> FALSE]

Upstreams(v) ==
    UpstreamFailures \cup {UpstreamRedirect(v)} \cup
    [kind : {"response"}, status : {200}, location : {Null},
     setCookie : {<<>>} \cup {<<c>> : c \in UpstreamCookies(v)},
     vary : {Null}, framing : {FALSE}]

FileOutcomes == {"found", "missing"}

----------------------------------------------------------------------------
(* The server and one client: the specification.                           *)

\* What a client reads in a Set-Cookie line (RFC 6265, 5.2): the name and
\* the value around the first "=" of the part before the first ";", trimmed.
ClientCookie(line) ==
    LET nameValue == Split(line, SEMI)[1]
        i == IndexOf(nameValue, EQ)
    IN  IF i = 0 THEN Pair(<<>>, Trim(nameValue))
        ELSE Pair(Trim(SubSeq(nameValue, 1, i - 1)), Trim(Slice(nameValue, i)))

\* The jar after a response: a cookie replaces the one of the same name.
\* The jar keeps the cookies the client of the model can send back.
RECURSIVE Store(_, _, _)
Store(j, lines, v) ==
    IF lines = <<>> THEN j
    ELSE LET c == ClientCookie(Head(lines))
             j1 == IF c \in CookiePairs(v)
                   THEN {d \in j : d.name # c.name} \cup {c} ELSE j
         IN  Store(j1, Tail(lines), v)

Request(method, path, search, sent, form, authorization) ==
    [method |-> method, path |-> path, search |-> search,
     cookie |-> CookieHeader(sent), sent |-> sent, form |-> form,
     authorization |-> authorization]

\* The requests a client holding jar j may send to variant v.  Only a login
\* submission carries a form, only the basic-auth variant reads Authorization.
Requests(v, j, isHonest) ==
    UNION {
        {Request(m, p, q, sent, form, authorization) :
            q \in Searches,
            sent \in {l \in CookieLists(v) :
                        isHonest => \A i \in 1..Len(l) : l[i] \in j},
            form \in IF IsLoginSubmission(v, m, p) THEN Forms ELSE {NoForm},
            authorization \in IF v = "basicauth" /\ p = <<"/">>
                              THEN Authorizations ELSE {Null}} :
        m \in Methods, p \in Paths(v)}

\* between two exchanges: no request is being handled
NoRequest == Request("-", <<>>, <<>>, <<>>, NoForm, Null)
NoResponse == Response(0, "none")

\* The login form a client has in front of it: the path and query it asked
\* for when the gate first answered with the form, and the hidden
\* redirect_to field of the form as rendered last (Null: no such field).
Page(url, field) == [url |-> url, field |-> field]
NoPage == Page(Null, Null)

\* The form after response out to request r: a login form answering any
\* other request is a new form for that request's path and query; one
\* answering the submission of the form as rendered is that form rendered
\* again; the form stays while its submission is answered with a redirect.
NextPage(p, v, r, out) ==
    IF out.kind = "login-form"
    THEN IF ~IsLoginSubmission(v, r.method, r.path)
         THEN Page(r.path \o r.search, out.form)
         ELSE IF p # NoPage /\ r.form.parsed /\ r.form.redirect_to = p.field
         THEN Page(p.url, out.form)
         ELSE NoPage
    ELSE IF out.kind = "login-redirect" THEN p
    ELSE NoPage

Init ==
    /\ variant \in Variants
    /\ password \in IF variant \in CookieVariants THEN {NoPassword, Secret}
                    ELSE {NoPassword}
    /\ honest \in IF variant \in CookieVariants THEN BOOLEAN ELSE {FALSE}
    /\ jar = {}
    /\ everLogin = FALSE
    /\ page = NoPage
    /\ elapsed = 0
    /\ req = NoRequest
    /\ resp = NoResponse
    /\ fetched = NoFetch
    /\ op = "none"
    /\ input = <<>>
    /\ output = <<>>

\* the upstream when no call reaches it, the disk when no file is read
Quiet == CHOOSE up \in UpstreamFailures : up.kind = "other error"

\* The handler of variant v on request r in environment (up, file).
Run(v, r, pw, up, file) ==
    CASE v = "zlibrary" -> handler(r, pw, up)
      [] v = "hashed" -> main(r, pw, up, file)
      [] v = "noauth" -> main_noauth(r, up, file)
      [] v = "part000" -> main_part000(r, up, file)
      [] v = "basicauth" -> handleRequest(r, up)

\* serve without a catch around the handler: the exception goes on
serve_rethrow(out) == out

\* serve(...): an exception that leaves the handler is answered with 500, by
\* the catch around main resp. by the default onError of std's serve
serve(out) ==
    IF out.resp.kind = "thrown"
    THEN [resp |-> Response(500, "internal-error"), fetched |-> out.fetched]
    ELSE out

\* The environments that make a difference to request r: the upstream
\* answers only a call that reaches it, the disk only a read that is made.
Environments(v, r, pw) ==
    (IF Run(v, r, pw, Quiet, "found").fetched # NoFetch
     THEN Upstreams(v) ELSE {Quiet})
    \X (IF Run(v, r, pw, Quiet, "found").resp.kind \in {"static", "dashboard"}
        THEN FileOutcomes ELSE {"found"})

\* One request handled: its response, the jar and the history after it.
Handled(r, out) ==
    /\ req' = r
    /\ resp' = out.resp
    /\ fetched' = out.fetched
    /\ jar' = IF honest THEN Store(jar, out.resp.setCookie, variant) ELSE jar
    /\ everLogin' = (everLogin \/ out.resp.kind = "login-redirect")
    /\ page' = NextPage(page, variant, r, out.resp)
    /\ elapsed' = IF out.resp.kind = "login-redirect" THEN 0 ELSE elapsed
    /\ UNCHANGED <<variant, password, honest, op, input, output>>

\* The server takes a request when it is idle; requests are handled one
\* after the other here (no handler keeps state between its awaits).
Serve(v) ==
    /\ variant = v
    /\ resp = NoResponse
    /\ \E r \in Requests(v, jar, honest) :
          \E env \in Environments(v, r, password) :
              Handled(r, serve(Run(v, r, password, env[1], env[2])))

Handler == Serve("zlibrary")

Main == Serve("hashed")

MainNoAuth == Serve("noauth")

MainPart000 == Serve("part000")

HandleRequest == Serve("basicauth")

\* The response is delivered; the server keeps nothing of the exchange.
Delivered ==
    /\ resp # NoResponse
    /\ req' = NoRequest
    /\ resp' = NoResponse
    /\ fetched' = NoFetch
    /\ page' = IF resp.kind = "login-form" THEN page ELSE NoPage
    /\ UNCHANGED <<variant, password, jar, honest, everLogin, elapsed, op, input,
                   output>>

\* Max-Age of the session cookie, in seconds: maxAge of handleLoginSubmission,
\* Max-Age of handleLogin
MaxAge(v) == IF v = "zlibrary" THEN 86400 * 30 ELSE 86400

\* Time passes beyond the Max-Age of the session cookie issued last.  The
\* server keeps no clock and no record of the cookie; the client's jar drops
\* the cookie, as a browser does.
TimePasses ==
    /\ resp = NoResponse
    /\ everLogin
    /\ elapsed <= MaxAge(variant)
    /\ elapsed' = MaxAge(variant) + 1
    /\ jar' = {c \in jar : c.name # <<AuthCookieName(variant)>>}
    /\ UNCHANGED <<variant, password, honest, everLogin, page, req, resp, fetched,
                   op, input, output>>

Next ==
    \/ Handler
    \/ Main
    \/ MainNoAuth
    \/ MainPart000
    \/ HandleRequest
    \/ Delivered
    \/ TimePasses

Spec == Init /\ [][Next]_vars

----------------------------------------------------------------------------
(* extractPrefixAndRest on its own: any table, any path, over the          *)
(* characters "/" and "a".                                                 *)

\* the longest path, the longest prefix and the most prefixes of a table
MaxPathLen == 4
MaxPrefixLen == 3
MaxTable == 2

Chars == {"/", "a"}

PathStrings(n) == {s \in SeqUpTo(Chars, n) : s # <<>> /\ s[1] = "/"}

\* prefixes are unique in a table (they are the keys of an object)
Tables ==
    {t \in SeqUpTo(PathStrings(MaxPrefixLen), MaxTable) :
        \A i, j \in 1..Len(t) : i # j => t[i] # t[j]}

InitPrefix ==
    /\ op = "none"
    /\ input \in [pathname : PathStrings(MaxPathLen), prefixes : Tables]
    /\ output = <<>>
    /\ variant = "none"
    /\ password = NoPassword
    /\ jar = {}
    /\ honest = FALSE
    /\ everLogin = FALSE
    /\ page = NoPage
    /\ elapsed = 0
    /\ req = NoRequest
    /\ resp = NoResponse
    /\ fetched = NoFetch

Idle ==
    UNCHANGED <<variant, password, jar, honest, everLogin, page, elapsed, req,
                resp, fetched>>

\* part_000 and the basic-auth variant
ExtractPrefixAndRest ==
    /\ op = "none"
    /\ op' = "extractPrefixAndRest"
    /\ output' = extractPrefixAndRest(input.pathname, input.prefixes)
    /\ UNCHANGED input
    /\ Idle

\* the hashed-token and the no-auth variant
ExtractPrefixAndRestSorted ==
    /\ op = "none"
    /\ op' = "extractPrefixAndRestSorted"
    /\ output' = extractPrefixAndRestSorted(input.pathname, input.prefixes)
    /\ UNCHANGED input
    /\ Idle

NextPrefix == ExtractPrefixAndRest \/ ExtractPrefixAndRestSorted

SpecPrefix == InitPrefix /\ [][NextPrefix]_vars

----------------------------------------------------------------------------
(* modifyResponseHeaders on its own: any upstream response.                *)

\* the most attributes after the name=value pair of a Set-Cookie line
MaxAttrs == 2

Locations ==
    {Null,
     <<"https://", ZLIB_BASE_URL, "/foo", "?x=1">>,
     <<"https://", "zh", ".", ZLIB_BASE_URL, "/foo", "#top">>,
     <<"https://", "Z-Library.SK">>,
     <<"http://", ZLIB_BASE_URL, "/foo">>,
     <<"https://", "not", ZLIB_BASE_URL, "/foo", "?x=1">>,
     <<"https://", "unrelated.example", "/bar">>,
     <<"https://", ZLIB_BASE_URL, ".", "unrelated.example", "/bar">>,
     <<"//", "unrelated.example", "/bar">>,
     <<"/foo", "?x=1">>,
     <<"bar">>,
     <<"?x=1">>,
     <<"https://", InvalidHostAtom>>}

NameValues ==
    {<<"sid", EQ, "1">>, <<"sid">>, <<AUTH_COOKIE_NAME, EQ, "ok">>,
     <<AUTH_COOKIE_NAME, SP, EQ, "ok">>, <<"Domain", EQ, PROXY_DOMAIN>>,
     <<"SameSite", EQ, "None">>}

Attributes ==
    {<<"Domain", EQ, "evil.example">>, <<"domain", EQ, PROXY_DOMAIN>>,
     <<"DOMAIN", EQ, ZLIB_BASE_URL>>, <<"Domain", SP, EQ, "evil.example">>,
     <<"Domain">>, <<"Secure">>, <<"SECURE">>, <<"SameSite", EQ, "Strict">>,
     <<"SAMESITE", EQ, "Lax">>, <<"SameSite">>,
     <<"Path", EQ, "/">>, <<"HttpOnly">>, <<"Max-Age", EQ, "60">>, <<>>}

\* name=value; attribute; attribute
CookieLines ==
    {Join(<<nv>> \o attrs, <<SEMI, SP>>) :
        nv \in NameValues, attrs \in SeqUpTo(Attributes, MaxAttrs)}

Varies ==
    {Null, <<>>, <<"Accept-Encoding">>, <<"Accept-Encoding", ",", SP, "Cookie">>,
     <<"cookie">>, <<"Accept-Encoding", ",", "COOKIE">>, <<"X-Cookie">>}

UpstreamResponse(location, setCookie, vary) ==
    [kind |-> "response", status |-> IF location = Null THEN 200 ELSE 302,
     location |-> location, setCookie |-> setCookie, vary |-> vary,
     framing |-> TRUE]

\* The upstream responses: every Location, every Set-Cookie line and every
\* Vary of the model, each with the other headers of a plain response, and
\* two lines together.
UpstreamResponses ==
    {UpstreamResponse(l, <<>>, v) : l \in Locations, v \in Varies}
    \cup {UpstreamResponse(Null, <<c>>, Null) : c \in CookieLines}
    \cup {UpstreamResponse(Null, <<c, <<"sid", EQ, "1">>>>, Null) :
            c \in {Join(<<nv>>, <<>>) : nv \in NameValues}}

TargetUrls ==
    [hostname : {<<ZLIB_BASE_URL>>}, pathname : {<<"/book/", "1">>},
     search : {<<>>, <<"?x=1">>}]

InitHeaders ==
    /\ op = "none"
    /\ input \in [targetResponse : UpstreamResponses, targetUrl : TargetUrls,
                  lang : {Null, <<"zh">>}]
    /\ output = <<>>
    /\ variant = "zlibrary"
    /\ password = NoPassword
    /\ jar = {}
    /\ honest = FALSE
    /\ everLogin = FALSE
    /\ page = NoPage
    /\ elapsed = 0
    /\ req = NoRequest
    /\ resp = NoResponse
    /\ fetched = NoFetch

ModifyResponseHeaders ==
    /\ op = "none"
    /\ op' = "modifyResponseHeaders"
    /\ output' = modifyResponseHeaders(input.targetResponse, input.targetUrl,
                                       input.lang)
    /\ UNCHANGED input
    /\ Idle

NextHeaders == ModifyResponseHeaders

SpecHeaders == InitHeaders /\ [][NextHeaders]_vars

----------------------------------------------------------------------------
(* The gate's judgement on its own, for two deployments that differ in     *)
(* their password only.                                                    *)

Passwords == {Secret, WrongPassword}

\* what the gate of variant v with password pw makes of a Cookie header
Authenticated(v, cookie, pw) ==
    IF v = "zlibrary" THEN isValidAuthCookie(getCookies(cookie))
    ELSE isAuthenticated(cookie, pw)

InitGate ==
    /\ op = "none"
    /\ variant \in CookieVariants
    /\ input \in [cookie : {CookieHeader(l) : l \in CookieLists(variant)},
                  first : Passwords, second : Passwords]
    /\ output = <<>>
    /\ password = NoPassword
    /\ jar = {}
    /\ honest = FALSE
    /\ everLogin = FALSE
    /\ page = NoPage
    /\ elapsed = 0
    /\ req = NoRequest
    /\ resp = NoResponse
    /\ fetched = NoFetch

\* the same Cookie header put to both deployments
CheckCookie ==
    /\ op = "none"
    /\ op' = "authenticated"
    /\ output' = [first |-> Authenticated(variant, input.cookie, input.first),
                  second |-> Authenticated(variant, input.cookie, input.second)]
    /\ UNCHANGED input
    /\ Idle

NextGate == CheckCookie

SpecGate == InitGate /\ [][NextGate]_vars

----------------------------------------------------------------------------
(* The vocabulary of the properties.                                       *)

\* a request has been handled and its response is on its way
Answered == resp # NoResponse

SessionName == <<AuthCookieName(variant)>>

ExpectedToken ==
    IF variant = "zlibrary" THEN <<"ok">> ELSE <<generateAuthToken(password)>>

\* the request carries the session cookie with the expected value, and no
\* cookie of that name with another value
CarriesSession ==
    /\ \E i \in 1..Len(req.sent) : req.sent[i] = Pair(SessionName, ExpectedToken)
    /\ \A i \in 1..Len(req.sent) :
          req.sent[i].name = SessionName => req.sent[i].value = ExpectedToken

\* the session cookie is missing, or every cookie of that name has another
\* value
NoValidSession ==
    \A i \in 1..Len(req.sent) :
        req.sent[i].name = SessionName => req.sent[i].value # ExpectedToken

LoginSubmission == IsLoginSubmission(variant, req.method, req.path)

\* the response is the 401 login form and nothing was fetched
LoginFormOnly ==
    resp.status = 401 /\ resp.kind = "login-form" /\ fetched = NoFetch

\* the request passed the gate: it was routed or forwarded
PassedGate ==
    resp.kind \in {"relayed", "bad-gateway", "proxy-error", "dashboard",
                   "robots", "static", "not-found"}

\* the cookies a client reads in the response's Set-Cookie lines
ResponseCookies ==
    {ClientCookie(resp.setCookie[i]) : i \in 1..Len(resp.setCookie)}

IssuesSession == Pair(SessionName, ExpectedToken) \in ResponseCookies

\* The attributes a client reads in a Set-Cookie line (RFC 6265, 5.2): the
\* parts after the first ";", the name lower-cased, name and value trimmed.
ClientAttributes(line) ==
    LET parts == Tail(Split(line, SEMI))
    IN  [i \in 1..Len(parts) |->
            LET k == IndexOf(parts[i], EQ)
            IN  IF k = 0
                THEN [name |-> ToLowerCase(Trim(parts[i])), value |-> <<>>]
                ELSE [name |-> ToLowerCase(Trim(SubSeq(parts[i], 1, k - 1))),
                      value |-> Trim(Slice(parts[i], k))]]

\* the values of the Domain attributes of a line (a Domain attribute
\* without value is ignored by clients and is left out)
DomainValues(line) ==
    LET attrs == ClientAttributes(line)
    IN  {attrs[i].value : i \in {k \in 1..Len(attrs) :
            attrs[k].name = <<"domain">> /\ attrs[k].value # <<>>}}

\* host is the upstream base domain or a subdomain of it
IsUpstreamHost(host) ==
    \/ host = <<ZLIB_BASE_URL>>
    \/ /\ Len(host) >= 3
       /\ host[Len(host)] = ZLIB_BASE_URL
       /\ host[Len(host) - 1] = "."

\* the prefixes of a table the path starts with
Matching(pathname, prefixes) ==
    {i \in 1..Len(prefixes) : StartsWith(pathname, prefixes[i])}

----------------------------------------------------------------------------
(* The properties.                                                         *)

\* C1: with a password configured, a request whose session cookie is missing
\* or has another value than the expected token, and which is neither
\* /status nor the login submission, gets the 401 login form and causes no
\* upstream fetch.
C1_NoSessionGetsLoginForm ==
    (/\ Answered
     /\ variant \in CookieVariants
     /\ password # NoPassword
     /\ NoValidSession
     /\ req.path # <<"/status">>
     /\ ~LoginSubmission)
    => LoginFormOnly

\* C2: for a client that only sends cookies it received through the proxy, a
\* request passes the gate only after a login with the configured password;
\* a login submission with another password issues no session cookie; and no
\* response other than that of a successful login hands the client a valid
\* session cookie.
C2_SessionOnlyByLogin ==
    (Answered /\ variant \in CookieVariants /\ honest /\ password # NoPassword)
    => /\ PassedGate => everLogin
       /\ (LoginSubmission /\ req.form.password # password) => ~IssuesSession
       /\ IssuesSession => resp.kind = "login-redirect"

\* C3: once a login with the correct password has returned the session
\* cookie, every later request to a gated path that carries that cookie name
\* and value passes the gate (it is never answered with the login form).
C3_ReplayedCookieIsAccepted ==
    (/\ Answered
     /\ variant \in CookieVariants
     /\ password # NoPassword
     /\ everLogin
     /\ CarriesSession
     /\ req.path # <<"/status">>
     /\ ~LoginSubmission)
    => PassedGate

\* C4: extractPrefixAndRest returns the longest prefix of the table the path
\* starts with, whatever the order of the table, and the path without that
\* prefix; it returns no prefix only when the path starts with none.
C4_LongestPrefixWins ==
    op \in {"extractPrefixAndRest", "extractPrefixAndRestSorted"}
    => LET m == Matching(input.pathname, input.prefixes)
       IN  IF m = {} THEN output = <<Null, Null>>
           ELSE \E i \in m :
                   /\ \A j \in m : Len(input.prefixes[j]) <= Len(input.prefixes[i])
                   /\ output = <<input.prefixes[i],
                                 Slice(input.pathname, Len(input.prefixes[i]))>>

\* C5: in the prefix-routed variants an authenticated request whose path is
\* not /, /index.html, /robots.txt or under /public/ and starts with no
\* configured prefix is answered with 404 and causes no upstream fetch.
C5_UnconfiguredPathIs404 ==
    (/\ Answered
     /\ variant \in PrefixVariants
     /\ (variant = "hashed" /\ password # NoPassword) => CarriesSession
     /\ req.path \notin {<<"/">>, <<"/index.html">>, <<"/robots.txt">>}
     /\ ~StartsWith(req.path, <<"/public/">>)
     /\ Matching(req.path, Keys(apiMapping)) = {})
    => (resp.status = 404 /\ fetched = NoFetch)

\* C6: a forwarded request of a prefix-routed variant calls the upstream with
\* the inbound method and with the mapped origin, the rest of the path after
\* the prefix and the inbound query string, in that order.
C6_UpstreamUrlKeepsQuery ==
    (Answered /\ variant \in PrefixVariants /\ fetched # NoFetch)
    => \E i \in Matching(req.path, Keys(apiMapping)) :
          /\ fetched[1].method = req.method
          /\ fetched[1].url = apiMapping[i].origin
                              \o Slice(req.path, Len(apiMapping[i].prefix))
                              \o req.search

\* C7: in the variants with a session cookie, a relayed response carries no
\* Set-Cookie line of the upstream whose cookie name is the session-cookie
\* name, and carries every other cookie the upstream set.
C7_UpstreamSessionCookieDropped ==
    (Answered /\ variant \in CookieVariants /\ resp.kind = "relayed")
    => /\ \A c \in ResponseCookies : c.name # SessionName
       /\ \A i \in 1..Len(fetched[1].answer.setCookie) :
             LET c == ClientCookie(fetched[1].answer.setCookie[i])
             IN  c.name # SessionName => c \in ResponseCookies

\* C8: every Set-Cookie line modifyResponseHeaders relays from the upstream
\* has a Domain attribute with the proxy domain and none with another value.
C8_RelayedCookieDomain ==
    op = "modifyResponseHeaders"
    => \A i \in 1..(Len(output.setCookie) - 1) :
          DomainValues(output.setCookie[i]) = {<<PROXY_DOMAIN>>}

\* C9: an upstream Location that resolves to the upstream base domain or a
\* subdomain of it reaches the client as path, query and fragment of the
\* resolved URL; one that resolves to any other host reaches it unchanged.
C9_LocationRewrite ==
    (op = "modifyResponseHeaders" /\ input.targetResponse.location # Null)
    => LET u == ParseURL(input.targetResponse.location, input.targetUrl)
       IN  u.ok => IF IsUpstreamHost(u.hostname)
                   THEN output.location = u.pathname \o u.search \o u.hash
                   ELSE output.location = input.targetResponse.location

\* C10: an unauthenticated login submission, with a password configured,
\* gets 401 with the login form, its error text and no session cookie when
\* the password differs from the secret, and 302 to the submitted
\* redirect_to with the session cookie when it equals the secret.
C10_LoginSubmissionOutcome ==
    (/\ Answered
     /\ variant \in CookieVariants
     /\ password # NoPassword
     /\ LoginSubmission
     /\ NoValidSession
     /\ req.form.parsed)
    => IF req.form.password = password
       THEN /\ resp.status = 302
            /\ req.form.redirect_to # Null => resp.location = req.form.redirect_to
            /\ IssuesSession
       ELSE /\ resp.status = 401
            /\ resp.kind = "login-form"
            /\ resp.showError
            /\ \A c \in ResponseCookies : c.name # SessionName

\* C11: when the gate answered a request for path and query U with the
\* login form and the client submits the form as rendered, after any number
\* of failed attempts, with the correct password, the Location of the 302
\* is U.
C11_LoginReturnsToRequestedUrl ==
    (/\ Answered
     /\ variant \in CookieVariants
     /\ resp.kind = "login-redirect"
     /\ page # NoPage
     /\ req.form.redirect_to = page.field)
    => resp.location = page.url

\* C12: with no password configured the gate never answers with the login
\* form, whatever cookies the request carries: every request other than the
\* liveness probe is routed or forwarded, and GET / of the hashed-token
\* variant gives the dashboard.
C12_NoPasswordNoGate ==
    (Answered /\ variant \in CookieVariants /\ password = NoPassword)
    => /\ resp.kind # "login-form"
       /\ req.path # <<"/status">> => PassedGate
       /\ (variant = "hashed" /\ req.method = "GET" /\ req.path = <<"/">>)
          => (resp.status = 200 /\ resp.kind = "dashboard")

\* C12 witness: without a password, a request with a cookie of the session
\* name and a wrong token is given the dashboard.
C12_Witness ==
    /\ Answered
    /\ variant = "hashed"
    /\ password = NoPassword
    /\ req.method = "GET"
    /\ req.path = <<"/">>
    /\ \E i \in 1..Len(req.sent) :
          /\ req.sent[i].name = <<AUTH_COOKIE_NAME_hashed>>
          /\ req.sent[i].value = <<generateAuthToken(WrongPassword)>>
    /\ resp.kind = "dashboard"

\* C13: the session cookie of a correct login, replayed on a gated request
\* after its Max-Age has elapsed since it was issued, is treated as
\* unauthenticated: the request gets the 401 login form and is not forwarded.
C13_ExpiredCookieRejected ==
    (/\ Answered
     /\ variant \in CookieVariants
     /\ password # NoPassword
     /\ everLogin
     /\ elapsed > MaxAge(variant)
     /\ CarriesSession
     /\ req.path # <<"/status">>
     /\ ~LoginSubmission)
    => LoginFormOnly

\* C14: of two deployments that differ only in their password, at most one
\* accepts a given cookie: the accepted token is determined by the secret.
C14_TokenDependsOnSecret ==
    (op = "authenticated" /\ input.first # input.second)
    => ~(output.first /\ output.second)

\* C15: a forwarded request whose upstream fetch fails to connect is
\* answered with 502, one whose forwarding raises any other exception with
\* 500.
C15_ConnectFailureIs502 ==
    (Answered /\ fetched # NoFetch)
    => /\ fetched[1].answer.kind = "fetch failed" => resp.status = 502
       /\ fetched[1].answer.kind = "other error" => resp.status = 500

\* C16: a forwarded request causes exactly one upstream request; an upstream
\* 3xx answer is relayed with its status and not followed, and a failed call
\* is not repeated.
C16_OneUpstreamRequest ==
    (Answered /\ fetched # NoFetch)
    => /\ Len(fetched) = 1
       /\ (fetched[1].answer.kind = "response" /\ IsRedirect(fetched[1].answer))
          => resp.status = fetched[1].answer.status

CookieTokens(vary) ==
    LET tokens == Split(vary, ",")
    IN  {i \in 1..Len(tokens) : ToLowerCase(Trim(tokens[i])) = <<"cookie">>}

\* C18: after modifyResponseHeaders the Vary header contains the token
\* Cookie: it is "Cookie" when the upstream sent no Vary, the upstream's value
\* followed by ", Cookie" when none of its tokens is cookie in any letter
\* case, and the upstream's value unchanged otherwise, so that no second
\* Cookie token is added.
C18_VaryContainsCookie ==
    op = "modifyResponseHeaders"
    => LET vary == input.targetResponse.vary
       IN  /\ CookieTokens(output.vary) # {}
           /\ vary = Null => output.vary = <<"Cookie">>
           /\ (vary # Null /\ CookieTokens(vary) = {})
              => output.vary = vary \o <<",", SP, "Cookie">>
           /\ (vary # Null /\ CookieTokens(vary) # {})
              => output.vary = vary
           /\ vary # Null
              => Cardinality(CookieTokens(output.vary))
                 = IF CookieTokens(vary) = {} THEN 1
                   ELSE Cardinality(CookieTokens(vary))

\* C18 witness: Vary: Accept-Encoding has become Accept-Encoding, Cookie.
C18_Witness ==
    /\ op = "modifyResponseHeaders"
    /\ input.targetResponse.vary = <<"Accept-Encoding">>
    /\ output.vary = <<"Accept-Encoding", ",", SP, "Cookie">>

\* C19: a login submission without a password field is answered like one
\* with a wrong password: with the 401 login form and its error indicator,
\* without a session cookie, and nothing is forwarded.
C19_MissingPasswordField ==
    (/\ Answered
     /\ variant \in CookieVariants
     /\ password # NoPassword
     /\ LoginSubmission
     /\ NoValidSession
     /\ req.form.parsed
     /\ req.form.password = NoField)
    => /\ resp.status = 401
       /\ resp.kind = "login-form"
       /\ resp.showError
       /\ \A c \in ResponseCookies : c.name # SessionName
       /\ fetched = NoFetch

\* the number a Max-Age value of the model denotes (0: not a number)
Seconds(value) ==
    CASE value = <<"2592000">> -> 86400 * 30
      [] value = <<"86400">> -> 86400
      [] value = <<"60">> -> 60
      [] OTHER -> 0

\* the line has an attribute of that name (lower case) and value
HasAttribute(line, name, value) ==
    LET attrs == ClientAttributes(line)
    IN  \E i \in 1..Len(attrs) :
           attrs[i].name = name /\ attrs[i].value = value

\* C20: the session cookie issued on a successful login carries Path=/,
\* Domain with the proxy domain, HttpOnly, Secure, SameSite=Lax and a Max-Age
\* between one hour and 30 days.
C20_SessionCookieAttributes ==
    (Answered /\ variant \in CookieVariants /\ resp.kind = "login-redirect")
    => \A i \in 1..Len(resp.setCookie) :
          LET line == resp.setCookie[i]
              attrs == ClientAttributes(line)
          IN  ClientCookie(line).name = SessionName
              => /\ HasAttribute(line, <<"path">>, <<"/">>)
                 /\ HasAttribute(line, <<"domain">>, <<PROXY_DOMAIN>>)
                 /\ HasAttribute(line, <<"httponly">>, <<>>)
                 /\ HasAttribute(line, <<"secure">>, <<>>)
                 /\ HasAttribute(line, <<"samesite">>, <<"Lax">>)
                 /\ \E k \in 1..Len(attrs) :
                       /\ attrs[k].name = <<"max-age">>
                       /\ Seconds(attrs[k].value) >= 3600
                       /\ Seconds(attrs[k].value) <= 86400 * 30

\* the positions of the attributes of that name (lower case) in a line
AttributePositions(line, name) ==
    LET attrs == ClientAttributes(line)
    IN  {i \in 1..Len(attrs) : attrs[i].name = name}

\* the lines of the output that modifyCookieString returned (the last line is
\* the siteLanguage cookie the proxy appends itself)
RelayedLines == SubSeq(output.setCookie, 1, Len(output.setCookie) - 1)

\* C21: every cookie string returned by modifyCookieString has the attribute
\* Secure exactly once and SameSite=None as its only SameSite attribute.
C21_SecureOnceSameSiteNone ==
    op = "modifyResponseHeaders"
    => \A i \in 1..Len(RelayedLines) :
          LET line == RelayedLines[i]
              attrs == ClientAttributes(line)
              sameSite == AttributePositions(line, <<"samesite">>)
          IN  /\ Cardinality(AttributePositions(line, <<"secure">>)) = 1
              /\ sameSite # {}
              /\ \A k \in sameSite : attrs[k].value = <<"None">>

\* C22: an upstream Location whose resolved hostname is neither the upstream
\* base domain nor a subdomain of it (a dot before the base domain) reaches
\* the client identical to the one upstream sent.
C22_OtherHostLocationUntouched ==
    (op = "modifyResponseHeaders" /\ input.targetResponse.location # Null)
    => LET targetLocation ==
               ParseURL(input.targetResponse.location, input.targetUrl)
       IN  (targetLocation.ok /\ ~IsUpstreamHost(targetLocation.hostname))
           => output.location = input.targetResponse.location

----------------------------------------------------------------------------
(* The headers of the request sent to the upstream. A Headers object is a  *)
(* set of [name, value] with the names in lower case and no name twice.    *)

\* new Headers(init): the names are lower-cased
Headers(init) == {[name |-> ToLowerCase(h.name), value |-> h.value] : h \in init}

\* headers.get(name); Null for null
HeadersGet(headers, name) ==
    IF \E h \in headers : h.name = ToLowerCase(name)
    THEN (CHOOSE h \in headers : h.name = ToLowerCase(name)).value
    ELSE Null

\* headers.delete(name)
HeadersDelete(headers, name) == {h \in headers : h.name # ToLowerCase(name)}

\* headers.set(name, value)
HeadersSet(headers, name, value) ==
    HeadersDelete(headers, name)
    \cup {[name |-> ToLowerCase(name), value |-> value]}

\* getModifiedRequestHeaders of the Z-Library variant
getModifiedRequestHeaders(originalHeaders, targetHost, lang) ==
    LET h0 == Headers(originalHeaders)
        h1 == HeadersSet(h0, <<"Host">>, targetHost)
        h2 == HeadersSet(h1, <<"Referer">>,
                         <<"https://">> \o targetHost \o <<"/">>)
        h3 == HeadersSet(h2, <<"Origin">>, <<"https://">> \o targetHost)
        originalAcceptLanguage == HeadersGet(h3, <<"Accept-Language">>)
        h4 == IF lang = <<"zh">>
              THEN HeadersSet(h3, <<"Accept-Language">>,
                              <<"zh-CN,zh;q=0.9,en;q=0.8">>)
              ELSE IF \/ originalAcceptLanguage \in {Null, <<>>}
                      \/ ~StartsWith(ToLowerCase(originalAcceptLanguage),
                                     <<"en">>)
              THEN HeadersSet(h3, <<"Accept-Language">>, <<"en-US,en;q=0.9">>)
              ELSE h3
        h5 == HeadersDelete(h4, <<"via">>)
        h6 == HeadersDelete(h5, <<"x-forwarded-", "for">>)
        h7 == HeadersDelete(h6, <<"x-forwarded-", "host">>)
        h8 == HeadersDelete(h7, <<"x-forwarded-", "proto">>)
        h9 == HeadersDelete(h8, <<"x-real-ip">>)
    IN  HeadersDelete(h9, <<"forwarded">>)

\* allowedHeaders of the prefix-routed variants
allowedHeaders(v) ==
    {<<"accept">>, <<"content-type">>, <<"authorization">>}
    \cup (IF v = "basicauth" THEN {<<"cookie">>} ELSE {})

\* the loop that copies the allowed headers of the request into new Headers()
CopyAllowed(v, requestHeaders) ==
    {h \in Headers(requestHeaders) : ToLowerCase(h.name) \in allowedHeaders(v)}

MaxHeaders == 3

\* the headers a client may send, as it writes them
InboundHeader ==
    {[name |-> <<"Via">>, value |-> <<"1.1 edge">>],
     [name |-> <<"VIA">>, value |-> <<"1.1 edge">>],
     [name |-> <<"X-Forwarded-", "For">>, value |-> <<"203.0.113.7">>],
     [name |-> <<"X-FORWARDED-", "PROTO">>, value |-> <<"https">>],
     [name |-> <<"X-Forwarded-", "Port">>, value |-> <<"443">>],
     [name |-> <<"X-Real-IP">>, value |-> <<"203.0.113.7">>],
     [name |-> <<"Forwarded">>, value |-> <<"for=203.0.113.7">>],
     [name |-> <<"Accept">>, value |-> <<"*/*">>],
     [name |-> <<"Authorization">>, value |-> <<"Bearer", SP, "k">>],
     [name |-> <<"Cookie">>, value |-> <<"sid", EQ, "1">>],
     [name |-> <<"Accept-Language">>, value |-> <<"EN", "-GB">>],
     [name |-> <<"Accept-Language">>, value |-> <<"fr">>]}

\* header sets of a request: no name twice, whatever its letter case
InboundHeaders ==
    {hs \in SUBSET InboundHeader :
        /\ Cardinality(hs) <= MaxHeaders
        /\ \A a, b \in hs :
              ToLowerCase(a.name) = ToLowerCase(b.name) => a = b}

InitRequestHeaders ==
    /\ op = "none"
    /\ variant \in Variants
    /\ input \in [headers : InboundHeaders, lang : {Null, <<"zh">>}]
    /\ output = <<>>
    /\ password = NoPassword
    /\ jar = {}
    /\ honest = FALSE
    /\ everLogin = FALSE
    /\ page = NoPage
    /\ elapsed = 0
    /\ req = NoRequest
    /\ resp = NoResponse
    /\ fetched = NoFetch

\* targetHost of the handler: the language cookie selects the subdomain
TargetHost(lang) ==
    IF lang = <<"zh">> THEN <<"zh", ".", ZLIB_BASE_URL>> ELSE <<ZLIB_BASE_URL>>

GetModifiedRequestHeaders ==
    /\ op = "none"
    /\ variant = "zlibrary"
    /\ op' = "requestHeaders"
    /\ output' = getModifiedRequestHeaders(input.headers,
                                           TargetHost(input.lang), input.lang)
    /\ UNCHANGED input
    /\ Idle

CopyAllowedHeaders ==
    /\ op = "none"
    /\ variant \in PrefixVariants
    /\ op' = "requestHeaders"
    /\ output' = CopyAllowed(variant, input.headers)
    /\ UNCHANGED input
    /\ Idle

NextRequestHeaders == GetModifiedRequestHeaders \/ CopyAllowedHeaders

SpecRequestHeaders == InitRequestHeaders /\ [][NextRequestHeaders]_vars

\* the header name betrays the proxy hop or the client's address
IsProxyChainHeader(name) ==
    \/ ToLowerCase(name) \in {<<"via">>, <<"forwarded">>, <<"x-real-ip">>}
    \/ StartsWith(ToLowerCase(name), <<"x-forwarded-">>)

\* C23: the headers sent to the upstream contain no header named Via,
\* Forwarded or X-Real-IP and none whose name starts with X-Forwarded-,
\* whatever the letter case.
C23_NoProxyChainHeaders ==
    op = "requestHeaders" => \A h \in output : ~IsProxyChainHeader(h.name)

----------------------------------------------------------------------------
(* modifyCookieString on its own, applied to an upstream line and then to  *)
(* what it returned.                                                       *)

InitCookie ==
    /\ op = "none"
    /\ input \in [cookieString : CookieLines,
                  proxyDomain : {PROXY_DOMAIN, "evil.example"}]
    /\ output = <<>>
    /\ variant = "zlibrary"
    /\ password = NoPassword
    /\ jar = {}
    /\ honest = FALSE
    /\ everLogin = FALSE
    /\ page = NoPage
    /\ elapsed = 0
    /\ req = NoRequest
    /\ resp = NoResponse
    /\ fetched = NoFetch

\* modifyCookieString(c, d)
ModifyCookieString ==
    /\ op = "none"
    /\ op' = "modifyCookieString"
    /\ output' = <<modifyCookieString(input.cookieString, input.proxyDomain)>>
    /\ UNCHANGED input
    /\ Idle

\* modifyCookieString(s, d) for the string s the first call returned
ModifyCookieStringAgain ==
    /\ op = "modifyCookieString"
    /\ Len(output) = 1
    /\ output[1] # Null
    /\ output' = output \o <<modifyCookieString(output[1], input.proxyDomain)>>
    /\ UNCHANGED <<op, input>>
    /\ Idle

NextCookie == ModifyCookieString \/ ModifyCookieStringAgain

SpecCookie == InitCookie /\ [][NextCookie]_vars

\* C24: modifyCookieString returns its own output unchanged: for a line c and
\* a proxy domain d with modifyCookieString(c, d) = s, modifyCookieString(s, d)
\* is s, the same tokens in the same order.
C24_ModifyCookieStringIdempotent ==
    (op = "modifyCookieString" /\ Len(output) = 2) => output[2] = output[1]

\* the second call has run on a string that the first call had altered in
\* its Domain, Secure and SameSite attributes
C24_Witness ==
    /\ op = "modifyCookieString"
    /\ Len(output) = 2
    /\ output[1] # input.cookieString
    /\ AttributePositions(input.cookieString, <<"domain">>) # {}
    /\ AttributePositions(input.cookieString, <<"samesite">>) # {}
    /\ DomainValues(output[1]) = {<<input.proxyDomain>>}

----------------------------------------------------------------------------
(* What the process writes to its console about the missing password: at   *)
(* startup (the module's top-level code) and in each request.              *)

\* a console line: the console method and what the line is about
Line(level, about) == [level |-> level, about |-> about]

\* the top-level code of the module, run once before serve()
StartupLines(v, pw) ==
    CASE v = "zlibrary" ->
            IF pw = NoPassword
            THEN <<Line("error", "password-unset"),
                   Line("warn", "auth-disabled")>>
            ELSE <<Line("log", "auth-enabled")>>
      [] v = "hashed" ->
            IF pw = NoPassword THEN <<Line("warn", "auth-disabled")>> ELSE <<>>
      [] v = "part000" -> <<Line("warn", "auth-disabled")>>
      [] OTHER -> <<>>

\* the lines the handler writes before it routes or forwards request r
HandlerLines(v, r, pw) ==
    CASE v = "zlibrary" ->
            IF r.path = <<"/status">> THEN <<>>
            ELSE IF pw = NoPassword THEN <<Line("warn", "auth-disabled")>>
            ELSE <<>>
      [] v = "hashed" ->
            IF pw = NoPassword THEN <<Line("log", "auth-skipped")>> ELSE <<>>
      [] OTHER -> <<>>

MaxRequests == 3

InitLog ==
    /\ variant \in Variants
    /\ password \in IF variant \in CookieVariants THEN {NoPassword, Secret}
                    ELSE {NoPassword}
    /\ op = "none"
    /\ input = 0
    /\ output = <<>>
    /\ jar = {}
    /\ honest = FALSE
    /\ everLogin = FALSE
    /\ page = NoPage
    /\ elapsed = 0
    /\ req = NoRequest
    /\ resp = NoResponse
    /\ fetched = NoFetch

\* the module is loaded and serve() is called
Startup ==
    /\ op = "none"
    /\ op' = "serving"
    /\ output' = StartupLines(variant, password)
    /\ UNCHANGED input
    /\ Idle

\* a request (one without cookies) is handled; input counts the requests
\* handled so far
HandleLogged ==
    /\ op = "serving"
    /\ input < MaxRequests
    /\ \E r \in Requests(variant, {}, TRUE) :
          /\ req' = r
          /\ output' = output \o HandlerLines(variant, r, password)
    /\ input' = input + 1
    /\ UNCHANGED <<variant, password, jar, honest, everLogin, page, elapsed,
                   resp, fetched, op>>

NextLog == Startup \/ HandleLogged

SpecLog == InitLog /\ [][NextLog]_vars

\* the authentication-disabled warnings on the console
AuthDisabledWarnings ==
    {i \in 1..Len(output) : output[i] = Line("warn", "auth-disabled")}

\* C25: with no password configured, the authentication-disabled warning is
\* on the console exactly once from startup on, however many requests have
\* been handled.
C25_WarnedOnceAtStartup ==
    (op = "serving" /\ variant \in CookieVariants /\ password = NoPassword)
    => Cardinality(AuthDisabledWarnings) = 1

\* the atoms of the model that begin a path, a query or a fragment
AfterAuthority ==
    PathAtoms \cup QueryAtoms \cup HashAtoms
    \cup {"/api", "/openai", "/v1/models", "/x", "/groq", "/unknown"}

\* scheme and host of an absolute URL: all that precedes its path
SchemeAndHost(url) ==
    LET ends == {i \in 2..Len(url) : url[i] \in AfterAuthority}
        n == IF ends = {} THEN Len(url)
             ELSE (CHOOSE i \in ends : \A j \in ends : i <= j) - 1
    IN  SubSeq(url, 1, n)

\* the prefix the variant's extractPrefixAndRest matches for the request
MatchedPrefix ==
    IF variant \in {"hashed", "noauth"}
    THEN extractPrefixAndRestSorted(req.path, Keys(apiMapping))[1]
    ELSE extractPrefixAndRest(req.path, Keys(apiMapping))[1]

\* C27: in the prefix-routed variants the URL passed to the upstream fetch has
\* the scheme and host of the origin mapped to the matched prefix, whatever
\* the rest of the path and the query are.
C27_UpstreamHostIsOrigin ==
    (Answered /\ variant \in PrefixVariants /\ fetched # NoFetch)
    => SchemeAndHost(fetched[1].url)
       = SchemeAndHost(Origin(apiMapping, MatchedPrefix))

\* the cookies of the Cookie header an upstream call carried
UpstreamCookiePairs(call) == getCookies(call.cookie)

\* C28: no request sent to the upstream carries the proxy's session cookie
\* (its name with the token as value), whatever cookies the client sent.
C28_SessionCookieNotForwarded ==
    (Answered /\ variant \in CookieVariants /\ password # NoPassword)
    => \A i \in 1..Len(fetched) :
          LET cookies == UpstreamCookiePairs(fetched[i])
          IN  \A k \in 1..Len(cookies) :
                 ~(cookies[k].key = SessionName /\ cookies[k].value = ExpectedToken)

\* C29: a POST to the proxy's login path (/auth-login in the Z-Library
\* variant, /login in the hashed-token variant) causes no upstream request,
\* whether the client is unauthenticated, holds a valid session cookie, or
\* no password is configured.
C29_LoginPostNotForwarded ==
    (Answered /\ variant \in CookieVariants /\ LoginSubmission)
    => fetched = NoFetch

\* the Cookie header has a cookie of exactly that name and value
HasCookie(cookie, name, value) ==
    LET cookies == getCookies(cookie)
    IN  \E i \in 1..Len(cookies) :
           cookies[i].key = name /\ cookies[i].value = value

\* C30: in the hashed-token variant isAuthenticated is true exactly when the
\* Cookie header has a cookie named api_proxy_auth_token whose value is the
\* digest of the configured password, whatever other cookies there are and
\* in whatever order.
C30_AuthenticatedIffTokenCookie ==
    (op = "authenticated" /\ variant = "hashed")
    => (output.first
        <=> HasCookie(input.cookie, <<AUTH_COOKIE_NAME_hashed>>,
                      <<generateAuthToken(input.first)>>))

----------------------------------------------------------------------------
(* Requests handled concurrently.  A handler runs from one await to the    *)
(* next without interruption; between two awaits the handlers of other     *)
(* requests run.  input is the module-level state of the process, output   *)
(* the frames of the handlers in flight.                                   *)

MaxInFlight == 2

\* the module-level constants: the keys of apiMapping in table order, the
\* password and the proxy domain
Config(pw) ==
    [routes |-> Keys(apiMapping), secret |-> pw, domain |-> PROXY_DOMAIN]

\* The table after extractPrefixAndRest: prefixes.sort(...) sorts the array
\* Object.keys(apiMapping) returned for this call, the table keeps its order.
TableAfterExtract(routes, sorted) == routes

\* the inbound header object after a handler that builds the outbound
\* headers in that object instead of a copy
InboundAfterHeaders_inPlace(originalHeaders, targetHost, lang) ==
    getModifiedRequestHeaders(originalHeaders, targetHost, lang)

\* The inbound header object after getModifiedRequestHeaders, which sets and
\* deletes on new Headers(originalHeaders), a copy.
InboundAfterHeaders(originalHeaders, targetHost, lang) == originalHeaders

\* the headers each request of this specification arrives with
ArrivingHeaders ==
    {h \in InboundHeader : h.name \in {<<"Via">>, <<"Accept">>}}

\* the requests of this specification: GET without query, with or without
\* the session cookie a logged-in client holds
ConcurrentRequests(v) ==
    LET sessionJar ==
            IF v = "zlibrary" THEN {Pair(<<AUTH_COOKIE_NAME>>, <<"ok">>)}
            ELSE IF v = "hashed"
            THEN {Pair(<<AUTH_COOKIE_NAME_hashed>>,
                       <<generateAuthToken(Secret)>>)}
            ELSE {}
        paths == IF v = "zlibrary" THEN {<<"/status">>, <<"/book">>}
                 ELSE {<<"/openai", "/v1/models">>, <<"/unknown">>}
    IN  {r \in Requests(v, sessionJar, TRUE) :
            r.method = "GET" /\ r.search = <<>> /\ r.path \in paths}

ConcurrentEnvironments(v, r, pw) ==
    {env \in Environments(v, r, pw) :
        env[1].kind = "fetch failed"
        \/ (env[1].kind = "response" /\ env[1].status = 200
            /\ env[1].setCookie = <<>>)}

\* the frame of a handler; arrived keeps the header object as it came in
IdleFrame ==
    [pc |-> "idle", r |-> NoRequest, env |-> <<Quiet, "found">>,
     headers |-> {}, arrived |-> {}, secret |-> NoPassword, url |-> Null,
     outbound |-> {}, out |-> Reply(NoResponse)]

InitConcurrent ==
    /\ variant \in Variants
    /\ password \in IF variant \in CookieVariants THEN {NoPassword, Secret}
                    ELSE {NoPassword}
    /\ op = "concurrent"
    /\ input = Config(password)
    /\ output = [i \in 1..MaxInFlight |-> IdleFrame]
    /\ jar = {}
    /\ honest = FALSE
    /\ everLogin = FALSE
    /\ page = NoPage
    /\ elapsed = 0
    /\ req = NoRequest
    /\ resp = NoResponse
    /\ fetched = NoFetch

\* serve calls the handler for a request; the handler runs to its first
\* await, the check of the session cookie against the password
Accept(i) ==
    /\ output[i].pc = "idle"
    /\ \E r \in ConcurrentRequests(variant) :
          \E env \in ConcurrentEnvironments(variant, r, password) :
              output' = [output EXCEPT ![i] =
                           [IdleFrame EXCEPT !.pc = "gated", !.r = r,
                                             !.env = env,
                                             !.headers = ArrivingHeaders,
                                             !.arrived = ArrivingHeaders,
                                             !.secret = input.secret]]
    /\ UNCHANGED <<op, input>>
    /\ Idle

\* the language cookie of a request (handler of the Z-Library variant)
LangOf(r) ==
    LET langCookie == CookieValue(getCookies(r.cookie), "lang")
    IN  IF langCookie = <<>> THEN Null ELSE langCookie

\* The handler goes on to its fetch, or to its response when it calls no
\* upstream: the prefix match on the keys of the table, the target URL, the
\* outbound headers.
Forward(i) ==
    LET f == output[i]
        out == serve(Run(variant, f.r, f.secret, f.env[1], f.env[2]))
        forwards == out.fetched # NoFetch
        sorted == variant \in {"hashed", "noauth"}
        prefixes == input.routes
        match == IF sorted THEN extractPrefixAndRestSorted(f.r.path, prefixes)
                 ELSE extractPrefixAndRest(f.r.path, prefixes)
        targetUrl ==
            IF variant = "zlibrary"
            THEN <<"https://">> \o TargetHost(LangOf(f.r)) \o f.r.path
                 \o f.r.search
            ELSE Origin(apiMapping, match[1]) \o match[2]
                 \o (IF variant = "part000" THEN <<>> ELSE f.r.search)
        outbound ==
            IF variant = "zlibrary"
            THEN getModifiedRequestHeaders(f.headers, TargetHost(LangOf(f.r)),
                                           LangOf(f.r))
            ELSE CopyAllowed(variant, f.headers)
    IN  /\ f.pc = "gated"
        /\ output' = [output EXCEPT ![i] =
              [f EXCEPT !.pc = IF forwards THEN "awaiting" ELSE "done",
                        !.url = IF forwards THEN targetUrl ELSE Null,
                        !.outbound = IF forwards THEN outbound ELSE {},
                        !.headers =
                            IF forwards /\ variant = "zlibrary"
                            THEN InboundAfterHeaders(f.headers,
                                     TargetHost(LangOf(f.r)), LangOf(f.r))
                            ELSE f.headers,
                        !.out = out]]
        /\ input' = IF forwards /\ variant \in PrefixVariants
                    THEN [input EXCEPT
                            !.routes = TableAfterExtract(input.routes, sorted)]
                    ELSE input
        /\ UNCHANGED op
        /\ Idle

\* the upstream has answered (or the fetch has failed): the handler returns
Complete(i) ==
    /\ output[i].pc = "awaiting"
    /\ output' = [output EXCEPT ![i].pc = "done"]
    /\ UNCHANGED <<op, input>>
    /\ Idle

\* the response is sent and the frame is gone; resp is the response sent last
Deliver(i) ==
    /\ output[i].pc = "done"
    /\ output' = [output EXCEPT ![i] = IdleFrame]
    /\ resp' = output[i].out.resp
    /\ UNCHANGED <<variant, password, jar, honest, everLogin, page, elapsed,
                   req, fetched, op, input>>

NextConcurrent ==
    \E i \in 1..MaxInFlight :
        Accept(i) \/ Forward(i) \/ Complete(i) \/ Deliver(i)

SpecConcurrent == InitConcurrent /\ [][NextConcurrent]_vars

\* what the handler answers and fetches when the request of frame f is the
\* only one the process ever handles
Alone(f) == serve(Run(variant, f.r, password, f.env[1], f.env[2]))

=============================================================================
